---------------------------- MODULE Spec2Model ----------------------------
(***************************************************************************)
(* A state-machine model of server/controllers/postController.js of        *)
(* social-echo: the request handlers over the Post, Community, Comment,    *)
(* User and Relationship collections.                                      *)
(*                                                                         *)
(* Every awaited store call is one atomic step (a single-document          *)
(* findOneAndUpdate / save / find is atomic in the store).  A handler with *)
(* one store write, or with reads only, is one action; createPost and      *)
(* addComment await twice around a write and are two actions each, so      *)
(* other requests interleave between their steps.                          *)
(*                                                                         *)
(* Ids are well-formed ObjectIds (no CastError); documents are identified  *)
(* by their _id, so a response body is the sequence of the _ids of the     *)
(* documents it carries.  res holds what the step just taken sent: a step  *)
(* that sends nothing resets it.                                           *)
(*                                                                         *)
(* Community membership is changed by the community controller and the     *)
(* createdAt stamps come from the schemas; neither is in this file, and    *)
(* joinCommunity, leaveCommunity and Tick stand for them.                  *)
(*                                                                         *)
(* One specification per group of handlers: SpecPost (createPost),         *)
(* SpecLike (likePost, unlikePost), SpecSaved (savePost, unsavePost,       *)
(* getSavedPosts), SpecComment (addComment, getComments, deletePost) and   *)
(* SpecFeed (getPosts, getPublicPosts over stores drawn by InitFeed).      *)
(***************************************************************************)
EXTENDS Integers, Sequences, FiniteSets

\* ------------------------------------------------------------- bounds
NumUsers == 2
NumCommunities == 2
MaxPosts == 2
MaxComments == 2
MaxTime == 2
MaxInflight == 1
PostRequests == 4
SavedRequests == 3
CommentRequests == 3
MaxArg == 2
FeedPosts == 14

\* ---------------------------------------------------- program constants
DefaultLimit == 10
DefaultSkip == 0
PublicLimit == 10

Users == 1..NumUsers
Communities == 1..NumCommunities
Null == 0
\* a well-formed id that names no stored document
GhostUser == NumUsers + 1
GhostCommunity == NumCommunities + 1
\* what getUserFromToken can return: null, a stored user, a removed user
Tokens == 0..GhostUser
UserIds == 1..GhostUser
CommunityIds == 1..GhostCommunity
PostIds == 1..(MaxPosts + 1)
Slots == 1..MaxInflight
TieBreaks == {"asc", "desc"}
\* a query-string integer: <<>> when the parameter is absent
QueryInts == {<<>>} \cup {<<n>> : n \in 0..MaxArg}

VARIABLES
    members,      \* Community collection: community id -> set of member user ids
    posts,        \* Post collection: post id -> document
    comments,     \* Comment collection: comment id -> document
    savedPosts,   \* User collection: user id -> savedPosts array
    follows,      \* Relationship collection: set of <<follower, following>>
    now,          \* the clock that stamps createdAt
    nextPost,     \* number of Post _ids handed out
    nextComment,  \* number of Comment _ids handed out
    pend,         \* handlers suspended between two awaits: slot -> record
    res,          \* what the handler that ran in the last step sent
    served        \* number of handler steps that wrote to the store so far

vars == <<members, posts, comments, savedPosts, follows, now, nextPost,
          nextComment, pend, res, served>>

\* ------------------------------------------------------------ helpers
Range(s) == {s[i] : i \in 1..Len(s)}

Min(a, b) == IF a < b THEN a ELSE b

Count(s, x) == Cardinality({i \in 1..Len(s) : s[i] = x})

RECURSIVE Without(_, _)
\* $pull: every occurrence of x leaves the array
Without(s, x) ==
    IF s = <<>> THEN <<>>
    ELSE IF Head(s) = x THEN Without(Tail(s), x)
    ELSE <<Head(s)>> \o Without(Tail(s), x)

\* $push: x is appended whether or not the array holds it
Push(s, x) == Append(s, x)

\* $addToSet: x is appended unless the array holds it
AddToSet(s, x) == IF x \in Range(s) THEN s ELSE Append(s, x)

Pull(s, x) == Without(s, x)

PostDoc(u, c, t) ==
    [user |-> u, community |-> c, createdAt |-> t, likes |-> <<>>, comments |-> <<>>]

CommentDoc(u, p, t) == [user |-> u, post |-> p, createdAt |-> t]

Idle == [op |-> "idle", user |-> 0, id |-> 0, comment |-> 0]

Resp(op, status, user, id) ==
    [op |-> op, status |-> status, user |-> user, id |-> id, body |-> <<>>,
     limit |-> <<>>, skip |-> <<>>, comment |-> 0, after |-> 0]

NoResp == Resp("none", 0, 0, 0)

\* x is not after y under sort({createdAt: -1}) of the documents docs; equal
\* keys come in an order the store does not fix, for which tb stands
Before(x, y, docs, tb) ==
    \/ docs[x].createdAt > docs[y].createdAt
    \/ /\ docs[x].createdAt = docs[y].createdAt
       /\ (IF tb = "asc" THEN x <= y ELSE x >= y)

\* the sorted sequence s with x put in its place
Insert(s, x, docs, tb) ==
    LET k == Cardinality({i \in 1..Len(s) : ~Before(x, s[i], docs, tb)})
    IN  [i \in 1..(Len(s) + 1) |->
            IF i <= k THEN s[i] ELSE IF i = k + 1 THEN x ELSE s[i - 1]]

RECURSIVE SortDesc(_, _, _)
SortDesc(S, docs, tb) ==
    IF S = {} THEN <<>>
    ELSE LET x == CHOOSE y \in S : TRUE
         IN  Insert(SortDesc(S \ {x}, docs, tb), x, docs, tb)

\* the order of an unsorted find: the store's own
StoreOrder(S, tb) ==
    LET rank == [x \in S |-> Cardinality({y \in S : IF tb = "asc" THEN y <= x ELSE y >= x})]
    IN  [i \in 1..Cardinality(S) |-> CHOOSE x \in S : rank[x] = i]

\* s from its last element to its first
Reverse(s) == [i \in 1..Len(s) |-> s[Len(s) + 1 - i]]

Skip(s, n) == SubSeq(s, n + 1, Len(s))

\* the store's limit(n); limit(0) is no limit
Limit(s, n) == IF n = 0 THEN s ELSE SubSeq(s, 1, Min(n, Len(s)))

\* parseInt(q) || d : an absent parameter parses to NaN, and NaN and 0 are falsy
ParseIntOr(q, d) == IF q = <<>> THEN d ELSE IF q[1] = 0 THEN d ELSE q[1]

PostTime == [p \in DOMAIN posts |-> posts[p].createdAt]

CommentTime == [c \in DOMAIN comments |-> comments[c].createdAt]

\* Community.find({members: u}) mapped to _id
CommunitiesOf(u) == {c \in DOMAIN members : u \in members[c]}

\* ------------------------------------------------------------ initial states
\* a store holding communities with membership m, posts P (n ids handed out),
\* follow edges F, and no comment, no saved post, no handler under way
InitStore(m, P, n, F) ==
    /\ members = m
    /\ posts = P
    /\ nextPost = n
    /\ follows = F
    /\ comments = <<>>
    /\ savedPosts = [u \in Users |-> <<>>]
    /\ now = 1
    /\ nextComment = 0
    /\ pend = [s \in Slots |-> Idle]
    /\ res = NoResp
    /\ served = 0

NoMembers == [c \in Communities |-> {}]

AllMembers == [c \in Communities |-> Users]

\* MaxPosts posts already created, spread over the users and the communities
SeededPosts ==
    [p \in 1..MaxPosts |->
        PostDoc(((p - 1) % NumUsers) + 1, ((p - 1) % NumCommunities) + 1, 1)]

\* one more step that writes to the store, while the behaviour is within bound n
Serve(n) == served < n /\ served' = served + 1

Tick ==
    /\ now < MaxTime
    /\ now' = now + 1
    /\ res' = NoResp
    /\ UNCHANGED <<members, posts, comments, savedPosts, follows, nextPost,
                   nextComment, pend, served>>

\* ------------------------------------------------------------ communities
\* membership changes made by the community controller
joinCommunity(userId, community) ==
    /\ userId \notin members[community]
    /\ members' = [members EXCEPT ![community] = @ \cup {userId}]
    /\ res' = NoResp
    /\ UNCHANGED <<posts, comments, savedPosts, follows, now, nextPost,
                   nextComment, pend>>

leaveCommunity(userId, community) ==
    /\ userId \in members[community]
    /\ members' = [members EXCEPT ![community] = @ \ {userId}]
    /\ res' = NoResp
    /\ UNCHANGED <<posts, comments, savedPosts, follows, now, nextPost,
                   nextComment, pend>>

\* ------------------------------------------------------------ createPost
\* Community.findOne({_id: community, members: userId})
IsMember(userId, community) ==
    community \in DOMAIN members /\ userId \in members[community]

\* a faulty variant: the lookup matches the community alone
createPostCheckAnyUser(s, userId, community) ==
    /\ pend[s] = Idle
    /\ IF community \notin DOMAIN members
       THEN /\ res' = Resp("createPost", 401, userId, community)
            /\ pend' = pend
       ELSE /\ res' = NoResp
            /\ pend' = [pend EXCEPT ![s] = 
                   [op |-> "createPost", user |-> userId, id |-> community, comment |-> 0]]
    /\ UNCHANGED <<members, posts, comments, savedPosts, follows, now, nextPost,
                   nextComment>>

\* up to the first await: the membership lookup and the 401
createPostCheck(s, userId, community) ==
    /\ pend[s] = Idle
    /\ IF ~IsMember(userId, community)
       THEN /\ res' = Resp("createPost", 401, userId, community)
            /\ pend' = pend
       ELSE /\ res' = NoResp
            /\ pend' = [pend EXCEPT ![s] = 
                   [op |-> "createPost", user |-> userId, id |-> community, comment |-> 0]]
    /\ UNCHANGED <<members, posts, comments, savedPosts, follows, now, nextPost,
                   nextComment>>

\* newPost.save() and the 201; a rejected save (ok = FALSE) is the 409
createPostSave(s, ok) ==
    /\ pend[s].op = "createPost"
    /\ nextPost < MaxPosts
    /\ IF ok
       THEN /\ posts' = [p \in DOMAIN posts \cup {nextPost + 1} |->
                           IF p = nextPost + 1
                           THEN PostDoc(pend[s].user, pend[s].id, now)
                           ELSE posts[p]]
            /\ nextPost' = nextPost + 1
            /\ res' = Resp("createPost", 201, pend[s].user, pend[s].id)
       ELSE /\ UNCHANGED <<posts, nextPost>>
            /\ res' = Resp("createPost", 409, pend[s].user, pend[s].id)
    /\ pend' = [pend EXCEPT ![s] = Idle]
    /\ UNCHANGED <<members, comments, savedPosts, follows, now, nextComment>>

\* ------------------------------------------------------------ likePost
\* a faulty variant: a read of the likes followed by a push, with no filter in the update
likePostPush(id, userId) ==
    /\ IF id \in DOMAIN posts
       THEN /\ posts' = [posts EXCEPT ![id].likes = Push(@, userId)]
            /\ res' = Resp("likePost", 200, userId, id)
       ELSE /\ posts' = posts
            /\ res' = Resp("likePost", 404, userId, id)
    /\ UNCHANGED <<members, comments, savedPosts, follows, now, nextPost,
                   nextComment, pend>>

\* findOneAndUpdate({_id: id, likes: {$ne: userId}}, {$addToSet: {likes: userId}})
likePost(id, userId) ==
    /\ IF id \in DOMAIN posts /\ userId \notin Range(posts[id].likes)
       THEN /\ posts' = [posts EXCEPT ![id].likes = AddToSet(@, userId)]
            /\ res' = Resp("likePost", 200, userId, id)
       ELSE /\ posts' = posts
            /\ res' = Resp("likePost", 404, userId, id)
    /\ UNCHANGED <<members, comments, savedPosts, follows, now, nextPost,
                   nextComment, pend>>

\* a faulty variant: an unlike of a post the user does not like is a silent no-op
unlikePostSilent(id, userId) ==
    /\ IF id \in DOMAIN posts
       THEN /\ posts' = [posts EXCEPT ![id].likes = Pull(@, userId)]
            /\ res' = Resp("unlikePost", 200, userId, id)
       ELSE /\ posts' = posts
            /\ res' = Resp("unlikePost", 404, userId, id)
    /\ UNCHANGED <<members, comments, savedPosts, follows, now, nextPost,
                   nextComment, pend>>

\* findOneAndUpdate({_id: id, likes: userId}, {$pull: {likes: userId}})
unlikePost(id, userId) ==
    /\ IF id \in DOMAIN posts /\ userId \in Range(posts[id].likes)
       THEN /\ posts' = [posts EXCEPT ![id].likes = Pull(@, userId)]
            /\ res' = Resp("unlikePost", 200, userId, id)
       ELSE /\ posts' = posts
            /\ res' = Resp("unlikePost", 404, userId, id)
    /\ UNCHANGED <<members, comments, savedPosts, follows, now, nextPost,
                   nextComment, pend>>

\* ------------------------------------------------------------ deletePost
\* Post.findById(id), then post.remove(): the Post document goes; the Comment
\* documents of the post stay (no cascade)
deletePost(id) ==
    /\ IF id \in DOMAIN posts
       THEN /\ posts' = [p \in DOMAIN posts \ {id} |-> posts[p]]
            /\ res' = Resp("deletePost", 200, 0, id)
       ELSE /\ posts' = posts
            /\ res' = Resp("deletePost", 404, 0, id)
    /\ UNCHANGED <<members, comments, savedPosts, follows, now, nextPost,
                   nextComment, pend>>

\* ================================================================ likes
InitLike == InitStore(AllMembers, SeededPosts, MaxPosts, {})

NextLike ==
    \/ \E id \in PostIds, u \in Users : likePost(id, u) /\ UNCHANGED served
    \/ \E id \in PostIds, u \in Users : unlikePost(id, u) /\ UNCHANGED served
    \/ \E id \in PostIds : deletePost(id) /\ UNCHANGED served

SpecLike == InitLike /\ [][NextLike]_vars

Likes(P, p) == IF p \in DOMAIN P THEN Range(P[p].likes) ELSE {}

\* C2: in every reachable state each user appears at most once in the likes
\* array of every post, whatever likePost and unlikePost calls were interleaved
C2_LikesAtMostOnce ==
    \A p \in DOMAIN posts : \A u \in Users : Count(posts[p].likes, u) <= 1

\* a post liked by two users, after a like by a user who already liked it was refused
C2_Witness ==
    /\ res.op = "likePost" /\ res.status = 404
    /\ res.id \in DOMAIN posts
    /\ Len(posts[res.id].likes) = 2
    /\ Count(posts[res.id].likes, res.user) = 1

\* the precondition of the like or unlike that res' answers, read before the step
LikePrecondition ==
    /\ res'.id \in DOMAIN posts
    /\ IF res'.op = "likePost"
       THEN res'.user \notin Likes(posts, res'.id)
       ELSE res'.user \in Likes(posts, res'.id)

\* C3: a likePost or unlikePost answers 200 exactly when the post exists and
\* its precondition holds (not yet liked / liked), and then only that user's
\* membership in that post's likes changes; otherwise it answers 404 and no
\* post's likes change
C3_LikeUnlikeOutcome ==
    [][res'.op \in {"likePost", "unlikePost"} =>
        /\ res'.status = (IF LikePrecondition THEN 200 ELSE 404)
        /\ DOMAIN posts' = DOMAIN posts
        /\ \A p \in DOMAIN posts : \A v \in Users :
              ((v \in Likes(posts', p)) # (v \in Likes(posts, p)))
                 <=> (LikePrecondition /\ p = res'.id /\ v = res'.user)]_vars

\* an unlike by a user who does not like a post that another user likes: 404
C3_Witness ==
    /\ res.op = "unlikePost" /\ res.status = 404
    /\ res.id \in DOMAIN posts
    /\ posts[res.id].likes # <<>>

\* ================================================================ createPost
InitPost == InitStore(NoMembers, <<>>, 0, {})

NextPost ==
    \/ \E u \in Users, c \in Communities : Serve(PostRequests) /\ joinCommunity(u, c)
    \/ \E u \in Users, c \in Communities : Serve(PostRequests) /\ leaveCommunity(u, c)
    \/ \E s \in Slots, u \in UserIds, c \in CommunityIds :
          Serve(PostRequests) /\ createPostCheck(s, u, c)
    \/ \E s \in Slots, ok \in BOOLEAN : Serve(PostRequests) /\ createPostSave(s, ok)

SpecPost == InitPost /\ [][NextPost]_vars

\* C1: a createPost whose user is not a member of the community (or whose
\* community does not exist) when the handler looks the membership up answers
\* 401 and leaves the posts as they are; the handler goes on to the save only
\* for a member, and a post is added only by such a handler, with the 201
C1_CreatePostMembership ==
    [][/\ (res'.op = "createPost" /\ res'.status = 401) =>
             (~IsMember(res'.user, res'.id) /\ posts' = posts)
       /\ \A s \in Slots :
             (pend[s] = Idle /\ pend'[s].op = "createPost") =>
                 (IsMember(pend'[s].user, pend'[s].id) /\ posts' = posts)
       /\ (DOMAIN posts' # DOMAIN posts) =>
             /\ res'.op = "createPost" /\ res'.status = 201
             /\ \E s \in Slots :
                   /\ pend[s].op = "createPost" /\ pend'[s] = Idle
                   /\ \A p \in DOMAIN posts' \ DOMAIN posts :
                         /\ posts'[p].user = pend[s].user
                         /\ posts'[p].community = pend[s].id
       /\ (res'.op = "createPost" /\ res'.status = 201) =>
             DOMAIN posts' # DOMAIN posts]_vars

\* a post was created by a member, and a non-member was refused
C1_Witness ==
    /\ res.op = "createPost" /\ res.status = 401
    /\ res.id \in DOMAIN members
    /\ posts # <<>>

\* ================================================================ saved posts
\* populate("savedPosts"): an id that names no stored Post drops out
Populate(ids) == SelectSeq(ids, LAMBDA p : p \in DOMAIN posts)

\* User.findOneAndUpdate({_id: userId}, {[operation]: {savedPosts: id}}, {new: true})
saveOrUnsavePost(tok, id, operation) ==
    LET name == IF operation = "$addToSet" THEN "savePost" ELSE "unsavePost" IN
    /\ IF tok = Null
       THEN /\ res' = Resp(name, 401, tok, id)
            /\ savedPosts' = savedPosts
       ELSE IF tok \notin DOMAIN savedPosts
       THEN /\ res' = Resp(name, 404, tok, id)
            /\ savedPosts' = savedPosts
       ELSE /\ savedPosts' = [savedPosts EXCEPT ![tok] =
                   IF operation = "$addToSet" THEN AddToSet(@, id) ELSE Pull(@, id)]
            /\ res' = [Resp(name, 200, tok, id) EXCEPT
                          !.body = Populate(savedPosts'[tok])]
    /\ UNCHANGED <<members, posts, comments, follows, now, nextPost,
                   nextComment, pend>>

savePost(tok, id) == saveOrUnsavePost(tok, id, "$addToSet")

unsavePost(tok, id) == saveOrUnsavePost(tok, id, "$pull")

\* a faulty variant: the saved posts are not narrowed to the caller's communities
getSavedPostsAnyCommunity(tok, tb) ==
    /\ IF tok = Null
       THEN res' = Resp("getSavedPosts", 401, tok, 0)
       ELSE IF tok \notin DOMAIN savedPosts
       THEN res' = Resp("getSavedPosts", 404, tok, 0)
       ELSE LET found == {p \in DOMAIN posts : p \in Range(savedPosts[tok])}
            IN  res' = [Resp("getSavedPosts", 200, tok, 0) EXCEPT
                           !.body = StoreOrder(found, tb)]
    /\ UNCHANGED <<members, posts, comments, savedPosts, follows, now, nextPost,
                   nextComment, pend>>

\* Post.find({community: {$in: communityIds}, _id: {$in: user.savedPosts}}),
\* unsorted: the store's order, which tb stands for
getSavedPosts(tok, tb) ==
    /\ IF tok = Null
       THEN res' = Resp("getSavedPosts", 401, tok, 0)
       ELSE IF tok \notin DOMAIN savedPosts
       THEN res' = Resp("getSavedPosts", 404, tok, 0)
       ELSE LET communityIds == CommunitiesOf(tok)
                found == {p \in DOMAIN posts :
                             /\ posts[p].community \in communityIds
                             /\ p \in Range(savedPosts[tok])}
            IN  res' = [Resp("getSavedPosts", 200, tok, 0) EXCEPT
                           !.body = StoreOrder(found, tb)]
    /\ UNCHANGED <<members, posts, comments, savedPosts, follows, now, nextPost,
                   nextComment, pend>>

InitSaved == \E m \in {NoMembers, AllMembers} : InitStore(m, SeededPosts, MaxPosts, {})

NextSaved ==
    \/ \E u \in Users, c \in Communities : Serve(SavedRequests) /\ joinCommunity(u, c)
    \/ \E u \in Users, c \in Communities : Serve(SavedRequests) /\ leaveCommunity(u, c)
    \/ \E tok \in Tokens, id \in PostIds : Serve(SavedRequests) /\ savePost(tok, id)
    \/ \E tok \in Tokens, id \in PostIds : Serve(SavedRequests) /\ unsavePost(tok, id)
    \/ \E tok \in Tokens, tb \in TieBreaks : getSavedPosts(tok, tb) /\ UNCHANGED served

SpecSaved == InitSaved /\ [][NextSaved]_vars

\* C4: every post of a 200 response of getSavedPosts is in the caller's saved
\* set and belongs to a community the caller is a member of; a saved post of
\* a community the caller has left is not returned
C4_SavedPostsOfCurrentCommunities ==
    (res.op = "getSavedPosts" /\ res.status = 200) =>
        /\ \A p \in Range(res.body) :
              /\ p \in Range(savedPosts[res.user])
              /\ p \in DOMAIN posts
              /\ res.user \in members[posts[p].community]
        /\ \A p \in Range(savedPosts[res.user]) :
              (p \in DOMAIN posts /\ res.user \notin members[posts[p].community])
                  => p \notin Range(res.body)

\* the scenario: two posts saved, the community of one of them left since;
\* the listing returns the other one only
C4_Witness ==
    /\ res.op = "getSavedPosts" /\ res.status = 200
    /\ Len(res.body) = 1
    /\ \E p \in Range(savedPosts[res.user]) :
          /\ p \in DOMAIN posts
          /\ res.user \notin members[posts[p].community]

\* C10: for a stored user, savePost and unsavePost answer 200; after savePost
\* the post id is in the user's saved set exactly once, after unsavePost it is
\* absent; a savePost of a saved post and an unsavePost of a post that is not
\* saved leave the saved set as it is; no other id enters or leaves it, and no
\* other user's saved set and no Post changes
C10_SaveUnsave ==
    [][(res'.op \in {"savePost", "unsavePost"} /\ res'.user \in Users) =>
        LET u == res'.user
            id == res'.id
        IN  /\ res'.status = 200
            /\ posts' = posts
            /\ \A v \in Users \ {u} : savedPosts'[v] = savedPosts[v]
            /\ \A q \in PostIds \ {id} :
                  Count(savedPosts'[u], q) = Count(savedPosts[u], q)
            /\ res'.op = "savePost" =>
                  /\ Count(savedPosts'[u], id) = 1
                  /\ id \in Range(savedPosts[u]) => savedPosts'[u] = savedPosts[u]
            /\ res'.op = "unsavePost" =>
                  /\ Count(savedPosts'[u], id) = 0
                  /\ id \notin Range(savedPosts[u]) => savedPosts'[u] = savedPosts[u]]_vars

\* a post saved by a user who has saved another post too, while another user
\* has a saved post
C10_Witness ==
    /\ res.op = "savePost" /\ res.status = 200
    /\ Len(savedPosts[res.user]) = 2
    /\ \E v \in Users \ {res.user} : savedPosts[v] # <<>>

\* ================================================================ comments
\* up to the first await: newComment.save(); a rejected save (ok = FALSE) is the 500
addCommentSave(s, post, user, ok) ==
    /\ pend[s] = Idle
    /\ nextComment < MaxComments
    /\ IF ok
       THEN /\ comments' = [c \in DOMAIN comments \cup {nextComment + 1} |->
                              IF c = nextComment + 1
                              THEN CommentDoc(user, post, now)
                              ELSE comments[c]]
            /\ nextComment' = nextComment + 1
            /\ pend' = [pend EXCEPT ![s] =
                   [op |-> "addComment", user |-> user, id |-> post,
                    comment |-> nextComment + 1]]
            /\ res' = NoResp
       ELSE /\ UNCHANGED <<comments, nextComment, pend>>
            /\ res' = Resp("addComment", 500, user, post)
    /\ UNCHANGED <<members, posts, savedPosts, follows, now, nextPost>>

\* Post.findOneAndUpdate({_id: post}, {$addToSet: {comments: newComment._id}}),
\* whose result is not looked at, and the 200
addCommentLink(s) ==
    /\ pend[s].op = "addComment"
    /\ posts' = IF pend[s].id \in DOMAIN posts
                THEN [posts EXCEPT ![pend[s].id].comments = AddToSet(@, pend[s].comment)]
                ELSE posts
    /\ res' = [Resp("addComment", 200, pend[s].user, pend[s].id) EXCEPT
                  !.comment = pend[s].comment]
    /\ pend' = [pend EXCEPT ![s] = Idle]
    /\ UNCHANGED <<members, comments, savedPosts, follows, now, nextPost,
                   nextComment>>

\* the comment that the step before this one acknowledged for post id, 0 if none
JustAdded(id) ==
    IF res.op = "addComment" /\ res.status = 200 /\ res.id = id
    THEN res.comment ELSE 0

\* a faulty variant: the comments come oldest first
getCommentsAscending(id, tb) ==
    LET found == {c \in DOMAIN comments : comments[c].post = id}
    IN  /\ res' = [Resp("getComments", 200, 0, id) EXCEPT
                      !.body = Reverse(SortDesc(found, comments, tb)),
                      !.after = JustAdded(id)]
        /\ UNCHANGED <<members, posts, comments, savedPosts, follows, now,
                       nextPost, nextComment, pend>>

\* Comment.find({post: id}).sort({createdAt: -1})
getComments(id, tb) ==
    LET found == {c \in DOMAIN comments : comments[c].post = id}
    IN  /\ res' = [Resp("getComments", 200, 0, id) EXCEPT
                      !.body = SortDesc(found, comments, tb),
                      !.after = JustAdded(id)]
        /\ UNCHANGED <<members, posts, comments, savedPosts, follows, now,
                       nextPost, nextComment, pend>>

\* the seeded posts, the first of them with one comment made and linked
InitComment ==
    /\ members = AllMembers
    /\ posts = [SeededPosts EXCEPT ![1].comments = <<1>>]
    /\ nextPost = MaxPosts
    /\ follows = {}
    /\ comments = <<CommentDoc(1, 1, 1)>>
    /\ savedPosts = [u \in Users |-> <<>>]
    /\ now = 1
    /\ nextComment = 1
    /\ pend = [s \in Slots |-> Idle]
    /\ res = NoResp
    /\ served = 0

NextComment ==
    \/ \E s \in Slots, p \in PostIds, u \in Users, ok \in BOOLEAN :
          Serve(CommentRequests) /\ addCommentSave(s, p, u, ok)
    \/ \E s \in Slots : Serve(CommentRequests) /\ addCommentLink(s)
    \/ \E id \in PostIds : Serve(CommentRequests) /\ deletePost(id)
    \/ \E id \in PostIds, tb \in TieBreaks : getComments(id, tb) /\ UNCHANGED served
    \/ Tick

SpecComment == InitComment /\ [][NextComment]_vars

NonIncreasing(body, t) ==
    \A i, j \in 1..Len(body) : i < j => t[body[i]] >= t[body[j]]

NoRepeats(body) == \A i, j \in 1..Len(body) : i # j => body[i] # body[j]

CommentsOf(id) == {c \in DOMAIN comments : comments[c].post = id}

\* getComments answers 200 with the comments whose parent is the post, each
\* once, in non-increasing order of creation time
CommentsListed ==
    res.op = "getComments" =>
        /\ res.status = 200
        /\ Range(res.body) = CommentsOf(res.id)
        /\ NoRepeats(res.body)
        /\ NonIncreasing(res.body, CommentTime)

C9_AckedCommentLinked ==
    (res.op = "addComment" /\ res.status = 200) =>
        /\ res.comment \in DOMAIN comments
        /\ comments[res.comment].post = res.id
        /\ res.id \in DOMAIN posts
        /\ res.comment \in Range(posts[res.id].comments)

\* ================================================================ feeds
\* Post.find({community: {$in: communityIds}}).sort({createdAt: -1}).skip(skip).limit(limit)
getPosts(userId, limitQ, skipQ, tb) ==
    LET limit == ParseIntOr(limitQ, DefaultLimit)
        skip == ParseIntOr(skipQ, DefaultSkip)
        communityIds == CommunitiesOf(userId)
        found == {p \in DOMAIN posts : posts[p].community \in communityIds}
    IN  /\ res' = [Resp("getPosts", 200, userId, 0) EXCEPT
                      !.body = Limit(Skip(SortDesc(found, posts, tb), skip), limit),
                      !.limit = limitQ, !.skip = skipQ]
        /\ UNCHANGED <<members, posts, comments, savedPosts, follows, now,
                       nextPost, nextComment, pend, served>>

\* a faulty variant: the communities of the caller, whether or not the target is in them
CallerCommunities(a, b) == {c \in DOMAIN members : a \in members[c]}

\* Community.find({members: {$all: [a, b]}}).distinct("_id")
CommonCommunities(a, b) == {c \in DOMAIN members : {a, b} \subseteq members[c]}

\* the handler returns null, sending nothing, when the caller does not follow
\* the target: status 0 stands for no response
getPublicPosts(tok, publicUserId, tb) ==
    /\ IF tok = Null
       THEN res' = Resp("getPublicPosts", 401, tok, publicUserId)
       ELSE IF <<tok, publicUserId>> \notin follows
       THEN res' = Resp("getPublicPosts", 0, tok, publicUserId)
       ELSE LET commonCommunityIds == CommonCommunities(tok, publicUserId)
                found == {p \in DOMAIN posts :
                             /\ posts[p].community \in commonCommunityIds
                             /\ posts[p].user = publicUserId}
            IN  res' = [Resp("getPublicPosts", 200, tok, publicUserId) EXCEPT
                           !.body = Limit(SortDesc(found, posts, tb), PublicLimit)]
    /\ UNCHANGED <<members, posts, comments, savedPosts, follows, now, nextPost,
                   nextComment, pend, served>>

\* n posts: the second by user 2 and the others by user 1, every sixth in
\* community 2 and the others in community 1, d posts per tick of the clock
FeedOf(n, d) ==
    [p \in 1..n |->
        PostDoc(IF p = 2 THEN 2 ELSE 1,
                IF p % 6 = 0 THEN 2 ELSE 1,
                (p + d - 1) \div d)]

MemberShapes ==
    {NoMembers, AllMembers, [c \in Communities |-> IF c = 1 THEN Users ELSE {2}]}

\* user 2 follows user 1, and user 1 follows a user who has left
SomeFollows == {<<2, 1>>, <<1, GhostUser>>}

InitFeed ==
    \E n \in {0, 2, FeedPosts - 1, FeedPosts}, d \in {1, 2}, m \in MemberShapes :
        InitStore(m, FeedOf(n, d), n, SomeFollows)

NextFeed ==
    \/ \E u \in UserIds, l \in QueryInts, k \in QueryInts, tb \in TieBreaks :
          getPosts(u, l, k, tb)
    \/ \E tok \in Tokens, u \in UserIds, tb \in TieBreaks : getPublicPosts(tok, u, tb)

SpecFeed == InitFeed /\ [][NextFeed]_vars

\* the posts the target wrote in communities that hold the caller and the target
PublicOf(caller, target) ==
    {p \in DOMAIN posts :
        /\ posts[p].user = target
        /\ {caller, target} \subseteq members[posts[p].community]}

\* C5: when the caller follows the target, getPublicPosts answers 200 with a
\* list of posts written by the target in communities that hold both users,
\* with at most 10 entries, in non-increasing order of creation time, and
\* made of the newest such posts
C5_PublicPosts ==
    (res.op = "getPublicPosts" /\ <<res.user, res.id>> \in follows) =>
        /\ res.status = 200
        /\ Range(res.body) \subseteq PublicOf(res.user, res.id)
        /\ NoRepeats(res.body)
        /\ Len(res.body) = Min(PublicLimit, Cardinality(PublicOf(res.user, res.id)))
        /\ NonIncreasing(res.body, PostTime)
        /\ \A q \in PublicOf(res.user, res.id) \ Range(res.body) :
              \A i \in 1..Len(res.body) : PostTime[q] <= PostTime[res.body[i]]

\* a full list of 10, with an older post of the target left out
C5_Witness ==
    /\ res.op = "getPublicPosts" /\ res.status = 200
    /\ Len(res.body) = PublicLimit
    /\ PublicOf(res.user, res.id) \ Range(res.body) # {}
    /\ \E p \in DOMAIN posts : posts[p].user = res.id /\ p \notin PublicOf(res.user, res.id)

\* the posts of the communities the user is a member of
VisibleTo(u) == {p \in DOMAIN posts : u \in members[posts[p].community]}

\* C7: getPosts with limit and skip (10 and 0 when absent) answers with the
\* posts at positions skip .. skip+limit-1 of the posts of the user's
\* communities taken newest first: posts of these communities only, in
\* non-increasing order of creation time, at most limit of them, none when
\* the user is in no community
C7_FeedPage ==
    res.op = "getPosts" =>
        LET limit == IF res.limit = <<>> THEN DefaultLimit ELSE res.limit[1]
            skip == IF res.skip = <<>> THEN DefaultSkip ELSE res.skip[1]
            visible == VisibleTo(res.user)
            rest == visible \ Range(res.body)
            n == Len(res.body)
            left == Cardinality(visible) - Min(skip, Cardinality(visible))
        IN  /\ res.status = 200
            /\ Range(res.body) \subseteq visible
            /\ NoRepeats(res.body)
            /\ NonIncreasing(res.body, PostTime)
            /\ n <= limit
            /\ n = Min(limit, left)
            /\ n > 0 =>
                  /\ \A q \in rest : \/ PostTime[q] >= PostTime[res.body[1]]
                                     \/ PostTime[q] <= PostTime[res.body[n]]
                  /\ Cardinality({q \in rest : PostTime[q] > PostTime[res.body[n]]}) <= skip
                  /\ Cardinality({q \in rest : PostTime[q] >= PostTime[res.body[1]]}) >= skip
            /\ CommunitiesOf(res.user) = {} => res.body = <<>>

\* C8: every getPublicPosts sends one response to the caller: a 401, a 200, a
\* 500 or a no-content response, also when the caller does not follow the target
C8_PublicPostsResponds ==
    res.op = "getPublicPosts" => res.status \in {401, 200, 500, 204}

=============================================================================
